---- MODULE Spec2Model ----
(***************************************************************************)
(* Model of the bulk audio downloader (src/audio_lib.py): the completed-   *)
(* set (downloaded_ids), its history file, the artifact files on disk and  *)
(* the run / download_batch / download_track control flow; and of the      *)
(* programs around it: organize_audio (src/organize_audio.py), the         *)
(* streamer of src/stream_now.py and the stream manager of                 *)
(* src/youtube_live.py, each with a specification of its own.              *)
(*                                                                         *)
(* Text is a sequence of one-character strings, so that the cleaning,      *)
(* truncation and lower-casing of names are computed, not assumed.         *)
(***************************************************************************)
EXTENDS Integers, Sequences, FiniteSets, TLC

\* ------------------------------------------------------------------ bounds
\* Longest manifest the remote endpoint serves.
MaxManifest == 2
\* Number of times the program is started on the same working directory.
MaxRuns == 2
\* Largest response body, in abstract bytes.
MaxBytes == 1

\* ------------------------------------------------------------------- text
\* [:50] in get_safe_filename.
NameLimit == 50

Min(a, b) == IF a < b THEN a ELSE b

\* The character class [<>:"/\\|?*] of the three re.sub calls.
SpecialChars == {"<", ">", ":", "\"", "/", "\\", "|", "?", "*"}

\* re.sub(r'[<>:"/\\|?*]', '_', s)
re_sub(s) == [i \in 1..Len(s) |-> IF s[i] \in SpecialChars THEN "_" ELSE s[i]]

\* s[:n]
Prefix(s, n) == SubSeq(s, 1, Min(Len(s), n))

\* str.split() separators that the modelled names use.
Whitespace == {" ", "\t"}

\* ' '.join(s.split()): runs of whitespace become one space, the ends are stripped.
RECURSIVE Words(_, _, _)
Words(s, i, cur) ==
    IF i > Len(s) THEN (IF cur = <<>> THEN <<>> ELSE <<cur>>)
    ELSE IF s[i] \in Whitespace
         THEN (IF cur = <<>> THEN <<>> ELSE <<cur>>) \o Words(s, i + 1, <<>>)
         ELSE Words(s, i + 1, Append(cur, s[i]))

RECURSIVE Join(_)
Join(ws) ==
    IF ws = <<>> THEN <<>>
    ELSE IF Len(ws) = 1 THEN ws[1]
    ELSE ws[1] \o <<" ">> \o Join(Tail(ws))

split_join(s) == Join(Words(s, 1, <<>>))

\* str.lower() on the letters the modelled names use.
LowerChar(c) ==
    CASE c = "A" -> "a" [] c = "B" -> "b" [] c = "C" -> "c"
      [] c = "U" -> "u" [] c = "X" -> "x" [] OTHER -> c

lower(s) == [i \in 1..Len(s) |-> LowerChar(s[i])]

\* str.replace(' ', '_')
replace_space(s) == [i \in 1..Len(s) |-> IF s[i] = " " THEN "_" ELSE s[i]]

Unknown == <<"U", "n", "k", "n", "o", "w", "n">>
UnknownArtist == Unknown \o <<" ", "A", "r", "t", "i", "s", "t">>
UnknownTrack == Unknown \o <<" ", "T", "r", "a", "c", "k">>
Uncategorized == <<"u", "n", "c", "a", "t", "e", "g", "o", "r", "i", "z", "e", "d">>
Mp3 == <<".", "m", "p", "3">>

\* get_safe_filename(artist, title, track_id); track_id is not used by the code.
get_safe_filename(artist, title, track_id) ==
    LET clean_artist == split_join(Prefix(re_sub(artist), NameLimit))
        clean_title == split_join(Prefix(re_sub(title), NameLimit))
    IN  IF clean_artist # <<>> /\ clean_artist # Unknown
        THEN clean_artist \o <<" ", "-", " ">> \o clean_title \o Mp3
        ELSE clean_title \o Mp3

\* create_category_folder(category): the folder name under base_dir.
create_category_folder(category) ==
    LET c == IF category = <<>> THEN Uncategorized ELSE category
    IN  lower(replace_space(re_sub(c)))

\* ------------------------------------------------------------ item records
\* A JSON value of an item record: a string or null.
Str(s) == [ty |-> "str", v |-> s]
Null == [ty |-> "null", v |-> <<>>]

\* dict.get(key, default)
Get(track, key, default) == IF key \in DOMAIN track THEN track[key] ELSE default

\* Python truthiness of a string-or-None value.
Truthy(x) == x.ty = "str" /\ x.v # <<>>

A1 == <<"a", "1">>
A2 == <<"a", "2">>
A3 == <<"a", "3">>

\* The item records the modelled manifest endpoint can serve.
\*   TrackA   genre "C", artist "X"                      -> c/X - A.mp3
\*   TrackB   empty genre, no mood, no artist            -> uncategorized/Unknown Artist - B.mp3
\*   TrackA3  another identifier, same folder and name as TrackA
\*   TrackA1b the identifier of TrackA under another name and mood
\*   TrackNoId   no identifier
\*   TrackNull   a null name
TrackA == [id |-> Str(A1), name |-> Str(<<"A">>), artist |-> Str(<<"X">>), genre |-> Str(<<"C">>)]
TrackB == [id |-> Str(A2), name |-> Str(<<"B">>), genre |-> Str(<<>>)]
TrackA3 == [id |-> Str(A3), name |-> Str(<<"A">>), artist |-> Str(<<"X">>), mood |-> Str(<<"c">>)]
TrackA1b == [id |-> Str(A1), name |-> Str(<<"B", "/">>), artist |-> Str(<<"X">>), mood |-> Str(<<"U", " ", "p">>)]
TrackNoId == [name |-> Str(<<"A">>), genre |-> Str(<<"C">>)]
TrackNull == [id |-> Str(A3), name |-> Null, genre |-> Str(<<"C">>)]

\* Item records that differ in their grouping tags only: genre and mood are
\* missing, empty, null or a string, in the combinations the category selection
\* of lines 113-119 tells apart.
Tagged(tags) == [id |-> Str(A1), name |-> Str(<<"A">>)] @@ tags
TagNone == Tagged(<<>>)
TagEmpty == Tagged([genre |-> Str(<<>>), mood |-> Str(<<>>)])
TagNull == Tagged([genre |-> Null, mood |-> Null])
TagMood == Tagged([genre |-> Str(<<>>), mood |-> Str(<<"U", " ", "p">>)])
TagNullMood == Tagged([genre |-> Null, mood |-> Str(<<"c">>)])
TagGenre == Tagged([genre |-> Str(<<"C", "/">>), mood |-> Str(<<"U", " ", "p">>)])
TagSpace == Tagged([genre |-> Str(<<" ">>)])

\* The manifest and the queue hold the records by these keys.
Pool == {"A", "B", "A3", "A1b", "NoId", "Null"}
TagPool == {"TagNone", "TagEmpty", "TagNull", "TagMood", "TagNullMood", "TagGenre", "TagSpace"}

Track(k) ==
    CASE k = "A" -> TrackA [] k = "B" -> TrackB [] k = "A3" -> TrackA3
      [] k = "A1b" -> TrackA1b [] k = "NoId" -> TrackNoId [] k = "Null" -> TrackNull
      [] k = "TagNone" -> TagNone [] k = "TagEmpty" -> TagEmpty [] k = "TagNull" -> TagNull
      [] k = "TagMood" -> TagMood [] k = "TagNullMood" -> TagNullMood
      [] k = "TagGenre" -> TagGenre [] k = "TagSpace" -> TagSpace

Ids == {A1, A2, A3}

\* Sequences over S of length 0..n.
SeqUpTo(S, n) == UNION {[1..k -> S] : k \in 0..n}

Manifests == SeqUpTo(Pool, MaxManifest)

\* The identifier run() filters on: t.get('id', '').
IdOf(track) == Get(track, "id", Str(<<>>)).v

\* --------------------------------------------------------------- exceptions
\* Classes of the errors the modelled calls raise; all derive from Exception.
ExceptionClasses ==
    {"RequestException", "HTTPError", "JSONDecodeError", "AttributeError", "TypeError", "OSError"}

\* A handler that catches the errors of the network only.
except_RequestException(exc) == exc \in {"RequestException", "HTTPError"}

\* The user's interrupt: KeyboardInterrupt derives from BaseException, not from
\* Exception, so no "except Exception" handler catches it.
KeyboardInterrupt == "KeyboardInterrupt"

\* "except Exception" (audio_lib.py lines 181, 221, 351).
except_Exception(exc) == exc \in ExceptionClasses

\* --------------------------------------------------------- the history file
\* The history file as load_downloaded_ids sees it.  val is a set of strings:
\*   missing     no file                      unreadable  open() raises
\*   invalid     not JSON                     toplist     a JSON list at top level
\*   nokey       an object without downloaded_ids
\*   null        downloaded_ids is null
\*   unhashable  a list holding a list or an object beside the strings val
\*   list        a list of the strings val (list(set) has no defined order)
\*   string      the one string in val        object      an object with the keys val
HistKinds ==
    {"missing", "unreadable", "invalid", "toplist", "nokey", "null",
     "unhashable", "list", "string", "object"}

Hist(kind, val) == [kind |-> kind, val |-> val]

Chars(s) == {<<s[i]>> : i \in 1..Len(s)}

\* load_try reading a key the file does not have: the default [] is returned.
load_try_wrongkey(h) ==
    CASE h.kind = "unreadable" -> [exc |-> "OSError", ids |-> {}]
      [] h.kind = "invalid"    -> [exc |-> "JSONDecodeError", ids |-> {}]
      [] h.kind = "toplist"    -> [exc |-> "AttributeError", ids |-> {}]
      [] OTHER                 -> [exc |-> "none", ids |-> {}]

\* set(data.get('downloaded_ids', [])) and the errors raised on the way to it.
\* The result is [exc, ids]: exc is "none" or the class of the error raised.
load_try(h) ==
    CASE h.kind = "unreadable" -> [exc |-> "OSError", ids |-> {}]
      [] h.kind = "invalid"    -> [exc |-> "JSONDecodeError", ids |-> {}]
      [] h.kind = "toplist"    -> [exc |-> "AttributeError", ids |-> {}]
      [] h.kind = "nokey"      -> [exc |-> "none", ids |-> {}]
      [] h.kind = "null"       -> [exc |-> "TypeError", ids |-> {}]
      [] h.kind = "unhashable" -> [exc |-> "TypeError", ids |-> {}]
      [] h.kind = "list"       -> [exc |-> "none", ids |-> h.val]
      [] h.kind = "string"     -> [exc |-> "none", ids |-> UNION {Chars(s) : s \in h.val}]
      [] h.kind = "object"     -> [exc |-> "none", ids |-> h.val]

\* A handler for the errors of reading and parsing only.
except_read_errors(exc) == exc \in {"OSError", "JSONDecodeError"}

\* The bare "except:" of load_downloaded_ids catches every error.
bare_except(exc) == TRUE

\* load_downloaded_ids(): [raised, ids].
load_downloaded_ids(h) ==
    IF h.kind = "missing" THEN [raised |-> FALSE, ids |-> {}]
    ELSE LET r == load_try(h)
         IN  IF r.exc = "none" THEN [raised |-> FALSE, ids |-> r.ids]
             ELSE IF bare_except(r.exc) THEN [raised |-> FALSE, ids |-> {}]
             ELSE [raised |-> TRUE, ids |-> {}]

\* The history files of a working directory: none, or one that an earlier use
\* left behind and whose artifact was since removed.
InitialHistories == {Hist("missing", {}), Hist("list", {A1})}

\* The history files load_downloaded_ids may be handed, damaged ones included.
DamagedHistories ==
    {Hist(k, {}) : k \in {"missing", "unreadable", "invalid", "toplist", "nokey", "null"}}
    \cup {Hist("unhashable", {A1})}
    \cup {Hist("list", v) : v \in SUBSET {A1, A2}}
    \cup {Hist("string", {A1}), Hist("object", {A1})}

\* ------------------------------------------------------------ the network
\* What one retrieval of an item meets.
\*   get_error   session.get raises (timeout, connection refused): no response
\*   open_error  a response arrives, open(filepath, 'wb') raises
\*   response    a response arrives and the file is opened:
\*       status  the HTTP status class (the code never reads it)
\*       body    the size of the body
\*       clen    the content-length header, 0 when absent
\*       cut     the bytes delivered before the connection breaks; cut = body
\*               is a complete body
\* The Google Drive confirmation round trip (lines 143-147) replaces the
\* response by a second one; the outcome describes the response that is read.
Outcome(kind, status, body, clen, cut) ==
    [kind |-> kind, status |-> status, body |-> body, clen |-> clen, cut |-> cut]

ResponseOutcomes ==
    {o \in [kind : {"response"}, status : {"ok", "http_error"}, body : 0..MaxBytes,
            clen : 0..MaxBytes, cut : 0..MaxBytes] :
        o.clen \in {0, o.body} /\ o.cut <= o.body}

DownloadOutcomes ==
    {Outcome("get_error", "none", 0, 0, 0), Outcome("open_error", "ok", 0, 0, 0)}
    \cup ResponseOutcomes

\* What a write of the history file meets.
\*   ok          the file is written
\*   open_error  open(.., 'w') raises: the file is left as it was
\*   dump_error  json.dump raises after open truncated the file
WriteOutcomes == {"ok", "open_error", "dump_error"}

\* The environment of one download_track call.
Envs == [net : DownloadOutcomes, hist : WriteOutcomes]

\* ------------------------------------------------------------------- disk
\* files maps each existing artifact path <<folder, filename>> to its size.
WriteFile(files, path, size) ==
    [p \in DOMAIN files \cup {path} |-> IF p = path THEN size ELSE files[p]]

\* An unlink that leaves the file where it is.
Unlink_keep(files, path) == files

Unlink(files, path) == [p \in DOMAIN files \ {path} |-> files[p]]

\* save_downloaded_id that adds to the set in memory and leaves the file to the
\* end of the run.
save_downloaded_id_memonly(track_id, ids, hist, w) ==
    [ids |-> ids \cup {track_id}, hist |-> hist]

\* save_downloaded_id that writes the file and leaves the set in memory as it is.
save_downloaded_id_fileonly(track_id, ids, hist, w) ==
    [ids  |-> ids,
     hist |-> CASE w = "ok"         -> Hist("list", ids \cup {track_id})
                [] w = "open_error" -> hist
                [] w = "dump_error" -> Hist("invalid", {})]

\* save_downloaded_id that starts the set anew from the identifier it is given.
save_downloaded_id_replace(track_id, ids, hist, w) ==
    [ids  |-> {track_id},
     hist |-> CASE w = "ok"         -> Hist("list", {track_id})
                [] w = "open_error" -> hist
                [] w = "dump_error" -> Hist("invalid", {})]

\* save_downloaded_id(track_id): the set in memory and the file after it.
\* The write is inside try/except Exception: its errors are logged and dropped.
save_downloaded_id(track_id, ids, hist, w) ==
    LET added == ids \cup {track_id}
    IN  [ids  |-> added,
         hist |-> CASE w = "ok"         -> Hist("list", added)
                    [] w = "open_error" -> hist
                    [] w = "dump_error" -> Hist("invalid", {})]

\* save_track_metadata(track, filepath): the sidecar files after it.  Its own
\* errors are caught and logged (lines 205-206); the write is taken to succeed.
save_track_metadata(sidecars, path) == sidecars \cup {path}

\* ---------------------------------------------------------- download_track
\* A category selection whose fallback bucket is named "Unknown".
CategoryOf_unknown(track) ==
    LET genre == Get(track, "genre", Str(<<>>))
        mood == Get(track, "mood", Str(<<>>))
        category == IF Truthy(genre) THEN genre ELSE mood
    IN  IF Truthy(category) THEN category.v ELSE Unknown

\* The category of lines 113-119.
CategoryOf(track) ==
    LET genre == Get(track, "genre", Str(<<>>))
        mood == Get(track, "mood", Str(<<>>))
        category == IF Truthy(genre) THEN genre ELSE mood
    IN  IF Truthy(category) THEN category.v ELSE Uncategorized

\* The artifact path of lines 121-124, for a record whose name and artist are strings.
FilePath(track) ==
    <<create_category_folder(CategoryOf(track)),
      get_safe_filename(Get(track, "artist", Str(UnknownArtist)).v,
                        Get(track, "name", Str(UnknownTrack)).v,
                        IdOf(track))>>

\* re.sub raises TypeError on a value that is not a string.
NamesAreStrings(track) ==
    /\ Get(track, "artist", Str(UnknownArtist)).ty = "str"
    /\ Get(track, "name", Str(UnknownTrack)).ty = "str"

\* The state a call works on and leaves behind.
Disk(ids, hist, files, sidecars, folders) ==
    [ids |-> ids, hist |-> hist, files |-> files, sidecars |-> sidecars, folders |-> folders]

\* The end of the try block: a normal return, or the handler of lines 181-183.
\* ret is "True", "False" or "raise" (the error leaves download_track).
Return(ret, exc, fetched, d) ==
    [ret |-> IF exc = "none" THEN ret
             ELSE IF except_Exception(exc) THEN "False" ELSE "raise",
     exc |-> exc, fetched |-> fetched, d |-> d]

\* Lines 152-179: the file is opened, the body is written and the result verified.
WriteAndVerify(track, d, path, env) ==
    LET o == env.net
        \* clen = 0: f.write(response.content) writes all or, on an error, nothing;
        \* otherwise iter_content writes the chunks that arrived.
        written == IF o.cut = o.body THEN o.body
                   ELSE IF o.clen = 0 THEN 0 ELSE o.cut
        opened == [d EXCEPT !.files = WriteFile(d.files, path, written)]
    IN  IF o.cut < o.body THEN Return("False", "RequestException", TRUE, opened)
        ELSE IF written > 0
        THEN LET s == save_downloaded_id(IdOf(track), d.ids, d.hist, env.hist)
             IN  Return("True", "none", TRUE,
                        [opened EXCEPT !.sidecars = save_track_metadata(d.sidecars, path),
                                       !.ids = s.ids, !.hist = s.hist])
        ELSE Return("False", "none", TRUE, [opened EXCEPT !.files = Unlink(opened.files, path)])

\* Lines 133-179: the retrieval of an item whose file is not on disk.
Retrieve(track, d, path, env) ==
    IF env.net.kind = "get_error" THEN Return("False", "RequestException", TRUE, d)
    ELSE IF env.net.kind = "open_error" THEN Return("False", "OSError", TRUE, d)
    ELSE WriteAndVerify(track, d, path, env)

\* FromCategory without the existence check of line 127: the file is written anew.
FromCategory_overwrite(track, d, env) ==
    LET made == [d EXCEPT !.folders = @ \cup {create_category_folder(CategoryOf(track))}]
    IN  IF ~NamesAreStrings(track) THEN Return("False", "TypeError", FALSE, made)
        ELSE Retrieve(track, made, FilePath(track), env)

\* Lines 110-131 and on: folder, file name, the existence check, the retrieval.
FromCategory(track, d, env) ==
    LET made == [d EXCEPT !.folders = @ \cup {create_category_folder(CategoryOf(track))}]
    IN  IF ~NamesAreStrings(track) THEN Return("False", "TypeError", FALSE, made)
        ELSE IF FilePath(track) \in DOMAIN made.files
        THEN LET s == save_downloaded_id(IdOf(track), made.ids, made.hist, env.hist)
             IN  Return("True", "none", FALSE, [made EXCEPT !.ids = s.ids, !.hist = s.hist])
        ELSE Retrieve(track, made, FilePath(track), env)

\* download_track without the test of line 106.
download_track_nomember(track, d, env) ==
    IF ~Truthy(Get(track, "id", Str(<<>>))) THEN Return("False", "none", FALSE, d)
    ELSE FromCategory(track, d, env)

\* download_track without the tests of lines 106 and 127.
download_track_noskip(track, d, env) ==
    IF ~Truthy(Get(track, "id", Str(<<>>))) THEN Return("False", "none", FALSE, d)
    ELSE IF ~NamesAreStrings(track) THEN Return("False", "TypeError", FALSE, d)
    ELSE Retrieve(track, d, FilePath(track), env)

\* download_track(track, index, total) in state d under environment env.
download_track(track, d, env) ==
    LET track_id == Get(track, "id", Str(<<>>))
    IN  IF ~Truthy(track_id) THEN Return("False", "none", FALSE, d)
        ELSE IF track_id.v \in d.ids THEN Return("True", "none", FALSE, d)
        ELSE FromCategory(track, d, env)

\* ------------------------------------------------------- fetch_all_tracks
\* What the manifest endpoint answers to one run.
\*   status  timeout (requests.get raises), http_error (non-2xx) or ok
\*   body    tracks     a JSON object whose "all" is the manifest
\*           malformed  not JSON         nonobject  a JSON list at top level
\*           nokey      an object without "all"
\*           null       an object whose "all" is null
ManifestResponses ==
    {[status |-> "timeout", body |-> "malformed"]}
    \cup [status : {"http_error", "ok"},
          body : {"tracks", "malformed", "nonobject", "nokey", "null"}]

\* fetch_try without raise_for_status (line 213).
fetch_try_nostatus(resp, served) ==
    CASE resp.status = "timeout"    -> [exc |-> "RequestException", tracks |-> <<>>]
      [] resp.body = "malformed"    -> [exc |-> "JSONDecodeError", tracks |-> <<>>]
      [] resp.body = "nonobject"    -> [exc |-> "AttributeError", tracks |-> <<>>]
      [] resp.body = "null"         -> [exc |-> "TypeError", tracks |-> <<>>]
      [] resp.body = "nokey"        -> [exc |-> "none", tracks |-> <<>>]
      [] OTHER                      -> [exc |-> "none", tracks |-> served]

\* Lines 212-219: the error raised, or the list returned.
fetch_try(resp, served) ==
    CASE resp.status = "timeout"    -> [exc |-> "RequestException", tracks |-> <<>>]
      [] resp.status = "http_error" -> [exc |-> "HTTPError", tracks |-> <<>>]
      [] resp.body = "malformed"    -> [exc |-> "JSONDecodeError", tracks |-> <<>>]
      [] resp.body = "nonobject"    -> [exc |-> "AttributeError", tracks |-> <<>>]
      [] resp.body = "null"         -> [exc |-> "TypeError", tracks |-> <<>>]
      [] resp.body = "nokey"        -> [exc |-> "none", tracks |-> <<>>]
      [] OTHER                      -> [exc |-> "none", tracks |-> served]

\* fetch_all_tracks(): [raised, tracks].
fetch_all_tracks(resp, served) ==
    LET r == fetch_try(resp, served)
    IN  IF r.exc = "none" THEN [raised |-> FALSE, tracks |-> r.tracks]
        ELSE IF except_Exception(r.exc) THEN [raised |-> FALSE, tracks |-> <<>>]
        ELSE [raised |-> TRUE, tracks |-> <<>>]

\* A response on which the fetch fails: no manifest is delivered.
FetchFails(resp) == resp.status # "ok" \/ resp.body # "tracks"

\* ---------------------------------------------------------------- run()
\* --limit values; 0 stands for no limit (None and 0 are both falsy).
Limits == 0..MaxManifest

\* run without the cut of line 303.
ApplyLimit_ignored(tracks, limit) == tracks

\* Lines 302-303: all_tracks[:limit].
ApplyLimit(tracks, limit) == IF limit = 0 THEN tracks ELSE Prefix(tracks, limit)

\* Lines 307-311: the offset run computes when called with resume.
StartFrom(resume, hist, ids) ==
    IF resume /\ hist.kind # "missing" THEN Cardinality(ids) ELSE 0

\* A call of download_batch that hands the computed offset on.
BatchStartFrom_passed(start_from) == start_from

\* Line 327: download_batch(new_tracks) is called without start_from; its
\* default, 0, applies whatever run computed.
BatchStartFrom(start_from) == 0

\* s[n:]
Suffix(s, n) == SubSeq(s, n + 1, Len(s))

\* Lines 229-230: the list download_batch iterates.
BatchTracks(tracks, start_from) == IF start_from > 0 THEN Suffix(tracks, start_from) ELSE tracks

\* run handing every item of the manifest to download_batch.
NewTracks_all(tracks, ids) == tracks

\* Line 314: the items whose identifier is not in the completed-set.
NewTracks(tracks, ids) == SelectSeq(tracks, LAMBDA t : IdOf(Track(t)) \notin ids)

\* A loop that passes over the item after each one it worked on.
NextIndexSkip(i, ok) == i + 2

\* A loop that stays on an item until its call returns True.
NextIndexRetry(i, ok) == IF ok THEN i + 1 ELSE i

\* download_batch: the position of the next item after one whose call returned ok.
NextIndex(i, ok) == i + 1

\* ------------------------------------------------------------------ state
VARIABLES
    manifest,        \* the item list the remote endpoint serves
    histfile,        \* youtube_music/download_history.json
    files,           \* artifact files: path -> size
    sidecars,        \* artifact paths that have a metadata file
    folders,         \* category folders under youtube_music
    pc,              \* "off", "ready" (constructed), "batch", "done", "crashed"
    runs,            \* the number of times the program was started
    downloaded_ids,  \* self.downloaded_ids
    response,        \* the manifest response of this run
    all_tracks,      \* run's all_tracks, after the limit
    queue,           \* the tracks download_batch iterates
    idx,             \* the position of the next track in queue
    successful,      \* download_batch's counters
    failed,
    last,            \* the last download_track call that returned, what it met and
                     \* its result
    loaded,          \* what load_downloaded_ids returned to the constructor
    report,          \* what run printed before it returned
    opts,            \* run's limit argument and the start_from it computed
    requests,        \* the identifiers retrievals were issued for in this run
    failedNow,       \* identifiers of retrievals that failed in this run
    failedEarlier,   \* identifiers of retrievals that failed in an earlier run
    prev,            \* the completed-set and the artifact paths when the previous run
                     \* ended, and whether the history file held that set
    org,             \* organize_audio (organize_audio.py): its folders and its loop
    sm,              \* YouTubeAutoStream and its StreamManager (youtube_live.py)
    ys               \* YouTubeStreamer and the script around it (stream_now.py)

\* The variables of the bulk downloader.
dlvars == <<manifest, histfile, files, sidecars, folders, pc, runs, downloaded_ids,
            response, all_tracks, queue, idx, successful, failed, last, loaded, report,
            opts, requests, failedNow, failedEarlier, prev>>

vars == <<dlvars, org, sm, ys>>

NoFiles == [p \in {} |-> 0]
\* empty: the response body was read to its end and had no bytes.
\* saved: what the write of the history file met, "none" when there was none.
NoCall == [track |-> "none", ret |-> "none", exc |-> "none", fetched |-> FALSE,
           empty |-> FALSE, saved |-> "none"]
NoResponse == [status |-> "none", body |-> "none"]
NoPrev == [ids |-> {}, paths |-> {}, saved |-> TRUE]
NoOpts == [limit |-> 0, start_from |-> 0]

\* The other programs of the repository are not running.
NoOrganizer == [pc |-> "off"]
NoStream == [pc |-> "off"]
NoStreamer == [pc |-> "off"]
OthersOff == org = NoOrganizer /\ sm = NoStream /\ ys = NoStreamer

\* What run prints before it returns.
\*   title    "no_tracks"    line 298, the fetch delivered nothing
\*            "all_done"     line 317, no item is new
\*            "complete"     lines 330-335, download_batch returned
\*            "interrupted"  line 349, the KeyboardInterrupt handler
\*   counts   the counters printed by lines 333-334, by name
\*   summary  print_summary was called
NoCounts == [n \in {} |-> 0]
NoReport == [title |-> "none", counts |-> NoCounts, summary |-> FALSE]
Report(title, counts, summary) == [title |-> title, counts |-> counts, summary |-> summary]
Counts(s, f) == [n \in {"successful", "failed"} |-> IF n = "successful" THEN s ELSE f]

Init ==
    /\ manifest \in Manifests
    /\ histfile \in InitialHistories
    /\ files = NoFiles
    /\ sidecars = {}
    /\ folders = {}
    /\ pc = "off"
    /\ runs = 0
    /\ downloaded_ids = {}
    /\ response = NoResponse
    /\ all_tracks = <<>>
    /\ queue = <<>>
    /\ idx = 1
    /\ successful = 0
    /\ failed = 0
    /\ last = NoCall
    /\ loaded = {}
    /\ report = NoReport
    /\ opts = NoOpts
    /\ requests = <<>>
    /\ failedNow = {}
    /\ failedEarlier = {}
    /\ prev = NoPrev
    /\ OthersOff

\* BulkAudioDownloader(): the program starts and loads the history.
Construct ==
    /\ pc = "off"
    /\ runs < MaxRuns
    /\ \E l \in {load_downloaded_ids(histfile)} :
           /\ pc' = IF l.raised THEN "crashed" ELSE "ready"
           /\ downloaded_ids' = l.ids
           /\ loaded' = l.ids
    /\ runs' = runs + 1
    /\ response' = NoResponse
    /\ all_tracks' = <<>>
    /\ queue' = <<>>
    /\ idx' = 1
    /\ successful' = 0
    /\ failed' = 0
    /\ last' = NoCall
    /\ report' = NoReport
    /\ opts' = NoOpts
    /\ requests' = <<>>
    /\ failedNow' = {}
    /\ UNCHANGED <<manifest, histfile, files, sidecars, folders, failedEarlier, prev>>
    /\ UNCHANGED <<org, sm, ys>>

\* run(limit, resume) up to the call of download_batch.  resume only computes
\* start_from (lines 307-311), which is passed to nothing.
RunBegin(limit, resume, resp) ==
    /\ pc = "ready"
    /\ response' = resp
    /\ opts' = [limit |-> limit, start_from |-> StartFrom(resume, histfile, downloaded_ids)]
    /\ \E fetched \in {fetch_all_tracks(resp, manifest)} :
       \E new_tracks \in {NewTracks(ApplyLimit(fetched.tracks, limit), downloaded_ids)} :
       \E tracks \in {BatchTracks(new_tracks, BatchStartFrom(opts'.start_from))} :
           /\ pc' = IF fetched.raised THEN "crashed"
                    ELSE IF fetched.tracks = <<>> \/ new_tracks = <<>> \/ tracks = <<>>
                    THEN "done"
                    ELSE "batch"
           /\ all_tracks' = ApplyLimit(fetched.tracks, limit)
           /\ queue' = IF fetched.raised \/ fetched.tracks = <<>> THEN <<>> ELSE tracks
           /\ report' = IF fetched.raised THEN NoReport
                        ELSE IF fetched.tracks = <<>> THEN Report("no_tracks", NoCounts, FALSE)
                        ELSE IF new_tracks = <<>> THEN Report("all_done", NoCounts, TRUE)
                        ELSE IF tracks = <<>> THEN Report("complete", Counts(0, 0), TRUE)
                        ELSE NoReport
    /\ UNCHANGED <<manifest, histfile, files, sidecars, folders, runs, downloaded_ids,
                   idx, successful, failed, last, loaded, requests, failedNow,
                   failedEarlier, prev>>
    /\ UNCHANGED <<org, sm, ys>>

\* One iteration of download_batch's loop (lines 236-247); after the last one
\* download_batch returns and run prints the summary.
DownloadStep(env) ==
    /\ pc = "batch"
    /\ idx <= Len(queue)
    /\ \E r \in {download_track(Track(queue[idx]),
                                 Disk(downloaded_ids, histfile, files, sidecars, folders), env)} :
       LET track == Track(queue[idx])
           ok == r.ret = "True"
           next == NextIndex(idx, ok)
       IN  /\ downloaded_ids' = r.d.ids
           /\ histfile' = r.d.hist
           /\ files' = r.d.files
           /\ sidecars' = r.d.sidecars
           /\ folders' = r.d.folders
           /\ last' = [track |-> queue[idx], ret |-> r.ret, exc |-> r.exc,
                        fetched |-> r.fetched,
                        empty |-> r.fetched /\ r.exc = "none" /\ env.net.body = 0,
                        saved |-> IF r.d.ids # downloaded_ids THEN env.hist ELSE "none"]
           /\ requests' = IF r.fetched THEN Append(requests, IdOf(track)) ELSE requests
           /\ failedNow' = IF r.fetched /\ r.ret # "True"
                           THEN failedNow \cup {IdOf(track)} ELSE failedNow
           /\ successful' = IF r.ret = "True" THEN successful + 1 ELSE successful
           /\ failed' = IF r.ret = "False" THEN failed + 1 ELSE failed
           /\ idx' = IF r.ret = "raise" THEN idx ELSE next
           /\ pc' = IF r.ret = "raise" \/ next > Len(queue) THEN "done" ELSE "batch"
           /\ report' = IF r.ret = "raise" THEN NoReport
                        ELSE IF next > Len(queue)
                        THEN Report("complete", Counts(successful', failed'), TRUE)
                        ELSE NoReport
    /\ UNCHANGED <<manifest, runs, response, all_tracks, queue, loaded, opts, failedEarlier,
                   prev>>
    /\ UNCHANGED <<org, sm, ys>>

\* Where a KeyboardInterrupt can reach the loop of download_batch.
\*   sleep  in time.sleep (line 243) or between two calls: no call is under way
\*   get    in session.get (line 140) of the item at idx
\*   write  in the with block of lines 153-161 of the item at idx, after the
\*          file was opened and some of the body was written
InterruptPoints == {"sleep", "get", "write"}

\* The user interrupts the batch.  No handler of download_track or download_batch
\* catches KeyboardInterrupt: it ends the call under way where it is and reaches
\* the handler of run (lines 348-350), which prints the summary; run returns.
Interrupt(point, size) ==
    /\ pc = "batch"
    /\ idx <= Len(queue)
    /\ LET track == Track(queue[idx])
           retrieving == /\ Truthy(Get(track, "id", Str(<<>>)))
                         /\ IdOf(track) \notin downloaded_ids
                         /\ NamesAreStrings(track)
                         /\ FilePath(track) \notin DOMAIN files
       IN  /\ except_Exception(KeyboardInterrupt) = FALSE
           /\ point # "sleep" => retrieving
           /\ point # "write" => size = 0
           /\ folders' = IF point = "sleep" THEN folders
                         ELSE folders \cup {create_category_folder(CategoryOf(track))}
           /\ requests' = IF point = "sleep" THEN requests
                          ELSE Append(requests, IdOf(track))
           /\ files' = IF point = "write" THEN WriteFile(files, FilePath(track), size)
                       ELSE files
    /\ pc' = "done"
    /\ report' = Report("interrupted", NoCounts, TRUE)
    /\ UNCHANGED <<manifest, histfile, sidecars, runs, downloaded_ids, response, all_tracks,
                   queue, idx, successful, failed, last, loaded, opts, failedNow,
                   failedEarlier, prev>>
    /\ UNCHANGED <<org, sm, ys>>

\* The process ends; what it held in memory is gone.
Exit ==
    /\ pc = "done"
    /\ pc' = "off"
    /\ prev' = [ids |-> downloaded_ids, paths |-> DOMAIN files,
                saved |-> histfile = Hist("list", downloaded_ids)]
    /\ failedEarlier' = failedEarlier \cup failedNow
    /\ UNCHANGED <<manifest, histfile, files, sidecars, folders, runs, downloaded_ids,
                   response, all_tracks, queue, idx, successful, failed, last, loaded,
                   report, opts, requests, failedNow>>
    /\ UNCHANGED <<org, sm, ys>>

Next ==
    \/ Construct
    \/ \E limit \in Limits, resume \in BOOLEAN, resp \in ManifestResponses :
           RunBegin(limit, resume, resp)
    \/ \E env \in Envs : DownloadStep(env)
    \/ \E point \in InterruptPoints, size \in 0..MaxBytes : Interrupt(point, size)
    \/ Exit

Spec == Init /\ [][Next]_vars

\* The loop of download_batch goes on: every download_track call returns (the
\* requests carry timeouts, the bodies and the manifest are finite), so an
\* iteration that can be taken is taken.  An iteration is the one step that
\* moves idx forward while the batch runs.
LoopAdvances == pc = "batch" /\ idx <= Len(queue) /\ idx' = idx + 1

\* It is checked on a fresh working directory, the endpoint serving items of
\* different identifiers and paths.
InitBatch ==
    /\ manifest \in SeqUpTo({"A", "B"}, MaxManifest)
    /\ histfile = Hist("missing", {})
    /\ files = NoFiles
    /\ sidecars = {}
    /\ folders = {}
    /\ pc = "off"
    /\ runs = 0
    /\ downloaded_ids = {}
    /\ response = NoResponse
    /\ all_tracks = <<>>
    /\ queue = <<>>
    /\ idx = 1
    /\ successful = 0
    /\ failed = 0
    /\ last = NoCall
    /\ loaded = {}
    /\ report = NoReport
    /\ opts = NoOpts
    /\ requests = <<>>
    /\ failedNow = {}
    /\ failedEarlier = {}
    /\ prev = NoPrev
    /\ OthersOff

LiveSpec == InitBatch /\ [][Next]_vars /\ WF_idx(LoopAdvances)

\* The same program started on a working directory whose history file is any of
\* DamagedHistories.
InitDamaged ==
    /\ manifest \in SeqUpTo({"A", "B"}, MaxManifest)
    /\ histfile \in DamagedHistories
    /\ files = NoFiles
    /\ sidecars = {}
    /\ folders = {}
    /\ pc = "off"
    /\ runs = 0
    /\ downloaded_ids = {}
    /\ response = NoResponse
    /\ all_tracks = <<>>
    /\ queue = <<>>
    /\ idx = 1
    /\ successful = 0
    /\ failed = 0
    /\ last = NoCall
    /\ loaded = {}
    /\ report = NoReport
    /\ opts = NoOpts
    /\ requests = <<>>
    /\ failedNow = {}
    /\ failedEarlier = {}
    /\ prev = NoPrev
    /\ OthersOff

SpecDamaged == InitDamaged /\ [][Next]_vars

\* The same program on a fresh working directory, the endpoint serving one item
\* of TagPool.
InitTags ==
    /\ manifest \in {<<k>> : k \in TagPool}
    /\ histfile = Hist("missing", {})
    /\ files = NoFiles
    /\ sidecars = {}
    /\ folders = {}
    /\ pc = "off"
    /\ runs = 0
    /\ downloaded_ids = {}
    /\ response = NoResponse
    /\ all_tracks = <<>>
    /\ queue = <<>>
    /\ idx = 1
    /\ successful = 0
    /\ failed = 0
    /\ last = NoCall
    /\ loaded = {}
    /\ report = NoReport
    /\ opts = NoOpts
    /\ requests = <<>>
    /\ failedNow = {}
    /\ failedEarlier = {}
    /\ prev = NoPrev
    /\ OthersOff

SpecTags == InitTags /\ [][Next]_vars

\* ---------------------------------------------------------------------------
\* organize_audio (src/organize_audio.py)

\* The keys of the categories dict, in declaration order.
Categories == <<"ambient", "calm", "cinematic", "electronic", "uplifting", "acoustic">>

\* The keyword lists of the categories dict.
Keywords(c) ==
    CASE c = "ambient" ->
      <<<<"a", "m", "b", "i", "e", "n", "t">>,
         <<"a", "t", "m", "o", "s", "p", "h", "e", "r", "i", "c">>,
         <<"s", "p", "a", "c", "e">>,
         <<"d", "r", "o", "n", "e">>,
         <<"e", "t", "h", "e", "r", "e", "a", "l">>>>
      [] c = "calm" ->
      <<<<"c", "a", "l", "m">>,
         <<"p", "e", "a", "c", "e", "f", "u", "l">>,
         <<"s", "e", "r", "e", "n", "e">>,
         <<"r", "e", "l", "a", "x", "i", "n", "g">>,
         <<"m", "e", "d", "i", "t", "a", "t", "i", "o", "n">>>>
      [] c = "cinematic" ->
      <<<<"c", "i", "n", "e", "m", "a", "t", "i", "c">>,
         <<"e", "p", "i", "c">>,
         <<"d", "r", "a", "m", "a">>,
         <<"e", "m", "o", "t", "i", "o", "n", "a", "l">>,
         <<"o", "r", "c", "h", "e", "s", "t", "r", "a", "l">>>>
      [] c = "electronic" ->
      <<<<"e", "l", "e", "c", "t", "r", "o", "n", "i", "c">>,
         <<"s", "y", "n", "t", "h">>,
         <<"l", "o", "f", "i">>,
         <<"c", "h", "i", "l", "l">>,
         <<"d", "o", "w", "n", "t", "e", "m", "p", "o">>>>
      [] c = "uplifting" ->
      <<<<"u", "p", "l", "i", "f", "t", "i", "n", "g">>,
         <<"i", "n", "s", "p", "i", "r", "i", "n", "g">>,
         <<"h", "o", "p", "e", "f", "u", "l">>,
         <<"p", "o", "s", "i", "t", "i", "v", "e">>,
         <<"m", "o", "t", "i", "v", "a", "t", "i", "o", "n", "a", "l">>>>
      [] c = "acoustic" ->
      <<<<"a", "c", "o", "u", "s", "t", "i", "c">>,
         <<"g", "u", "i", "t", "a", "r">>,
         <<"p", "i", "a", "n", "o">>,
         <<"s", "t", "r", "i", "n", "g", "s">>,
         <<"i", "n", "s", "t", "r", "u", "m", "e", "n", "t", "a", "l">>>>

\* keyword in search_text
IsSubstring(k, t) == \E i \in 0..(Len(t) - Len(k)) : SubSeq(t, i + 1, i + Len(k)) = k

\* Lines 60-71: the first category, in dict order, one of whose keywords is in
\* search_text; "other" when there is none (lines 73-79).
first_category(search_text) ==
    LET hits == {c \in 1..Len(Categories) :
                    \E j \in 1..Len(Keywords(Categories[c])) :
                        IsSubstring(Keywords(Categories[c])[j], search_text)}
    IN  IF hits = {} THEN "other"
        ELSE Categories[CHOOSE c \in hits : \A d \in hits : c <= d]

\* The metadata files of the modelled folder: what json.load returns.
\*   MCalm     a name that matches in lower case only
\*   MFirst    keywords of three categories; ambient is declared first
\*   MInside   a keyword inside a longer word, genre and mood keys missing
\*   MMood     the keyword in mood
\*   MNone     no keyword
\*   MNull     a null genre, as save_track_metadata writes it for an item whose
\*             genre is null
\*   MNullName a null name
MCalm == [genre |-> Str(<<>>), mood |-> Str(<<>>), name |-> Str(<<"C", "a", "l", "m">>)]
MFirst == [genre |-> Str(<<"p", "i", "a", "n", "o">>), mood |-> Str(<<"c", "a", "l", "m">>),
           name |-> Str(<<"A", "m", "b", "i", "e", "n", "t">>)]
MInside == [name |-> Str(<<"X", "s", "y", "n", "t", "h", "s">>)]
MMood == [genre |-> Str(<<>>), mood |-> Str(<<"e", "p", "i", "c">>), name |-> Str(<<"B">>)]
MNone == [genre |-> Str(<<>>), mood |-> Str(<<>>), name |-> Str(<<"B">>)]
MNull == [genre |-> Null, mood |-> Str(<<>>), name |-> Str(<<"C", "a", "l", "m">>)]
MNullName == [genre |-> Str(<<>>), mood |-> Str(<<>>), name |-> Null]

\* The contents a metadata file can have; "corrupt" is not JSON.
MetaPool == {"MCalm", "MFirst", "MInside", "MMood", "MNone", "MNull", "MNullName", "corrupt"}

Metadata(k) ==
    CASE k = "MCalm" -> MCalm [] k = "MFirst" -> MFirst [] k = "MInside" -> MInside
      [] k = "MMood" -> MMood [] k = "MNone" -> MNone [] k = "MNull" -> MNull
      [] k = "MNullName" -> MNullName

\* Lines 52-56: metadata.get(key, '').lower() of genre, mood and name, joined by
\* spaces.  None has no lower(): the AttributeError leaves the try block.
search_text(metadata) ==
    LET genre == Get(metadata, "genre", Str(<<>>))
        mood == Get(metadata, "mood", Str(<<>>))
        name == Get(metadata, "name", Str(<<>>))
    IN  IF genre.ty = "null" \/ mood.ty = "null" \/ name.ty = "null"
        THEN [raised |-> TRUE, text |-> <<>>]
        ELSE [raised |-> FALSE,
              text |-> lower(genre.v) \o <<" ">> \o lower(mood.v) \o <<" ">> \o lower(name.v)]

\* Lines 48-56 for the metadata file of content k.
ReadMetadata(k) ==
    IF k = "corrupt" THEN [raised |-> TRUE, text |-> <<>>] ELSE search_text(Metadata(k))

\* shutil.move(src, dst) of a file onto a file path: a file that is at dst is
\* replaced.
Move(fs, src, dst) ==
    [p \in (DOMAIN fs \ {src}) \cup {dst} |-> IF p = dst THEN fs[src] ELSE fs[p]]

\* The file names of the modelled folders, without suffix.
Names == {"a", "b"}
UncategorizedDir == "uncategorized"
Folders == {Categories[c] : c \in 1..Len(Categories)} \cup {"other", UncategorizedDir}

\* The keys of stats (lines 35-36).
StatKeys == Categories \o <<"other">>
NoStats == [k \in {StatKeys[j] : j \in 1..Len(StatKeys)} |-> 0]

\* Lines 95-99: the sum of the counts.
RECURSIVE SumStats(_, _)
SumStats(stats, j) == IF j > Len(StatKeys) THEN 0 ELSE stats[StatKeys[j]] + SumStats(stats, j + 1)

\* What a move of one iteration does: both moves succeed, the move of the MP3
\* raises, or the move of the metadata file raises after the MP3 was moved.
MoveOutcomes == {"ok", "mp3_error", "json_error"}

\* A folder tree before organize_audio runs: per name, no MP3 in uncategorized,
\* an MP3 without metadata file, or an MP3 with one of MetaPool; and MP3 files
\* that are already in target folders.  The content of an MP3 is named by the
\* path it had before the run.
UncChoices == {"absent", "bare"} \cup MetaPool
ExistingTargets == {<<"other", "a">>, <<"calm", "a">>}
Orders(S) == {s \in SeqUpTo(S, Cardinality(S)) : Len(s) = Cardinality(S) /\ \A x \in S : \E j \in 1..Len(s) : s[j] = x}

Tree(ch, ex, unc) ==
    LET inUnc == {<<UncategorizedDir, n>> : n \in {m \in Names : ch[m] # "absent"}}
        withJson == {<<UncategorizedDir, n>> : n \in {m \in Names : ch[m] \in MetaPool}}
    IN  [pc |-> "off",
         mp3 |-> [p \in inUnc \cup ex |-> p],
         json |-> [p \in withJson |-> ch[p[2]]],
         dirs |-> {p[1] : p \in ex} \cup (IF unc THEN {UncategorizedDir} ELSE {}),
         mp3_files |-> <<>>,
         i |-> 1,
         stats |-> NoStats,
         total_moved |-> 0,
         playlists |-> {},
         initial |-> inUnc \cup ex,
         move_failed |-> FALSE]

Trees ==
    {Tree(ch, ex, unc) : ch \in [Names -> UncChoices], ex \in SUBSET ExistingTargets,
                        unc \in BOOLEAN}

\* The downloader is not running.
DownloaderOff ==
    /\ manifest = <<>>
    /\ histfile = Hist("missing", {})
    /\ files = NoFiles
    /\ sidecars = {}
    /\ folders = {}
    /\ pc = "off"
    /\ runs = 0
    /\ downloaded_ids = {}
    /\ response = NoResponse
    /\ all_tracks = <<>>
    /\ queue = <<>>
    /\ idx = 1
    /\ successful = 0
    /\ failed = 0
    /\ last = NoCall
    /\ loaded = {}
    /\ report = NoReport
    /\ opts = NoOpts
    /\ requests = <<>>
    /\ failedNow = {}
    /\ failedEarlier = {}
    /\ prev = NoPrev

InitOrganize ==
    /\ DownloaderOff
    /\ org \in {t \in Trees : UncategorizedDir \in t.dirs
                              \/ \A p \in DOMAIN t.mp3 : p[1] # UncategorizedDir}
    /\ sm = NoStream
    /\ ys = NoStreamer

\* Lines 13-40: without an uncategorized folder organize_audio returns;
\* otherwise it creates the category folders, zeroes stats and lists the MP3
\* files of the folder, in the order glob yields them.
OrganizeBegin ==
    /\ org.pc = "off"
    /\ IF ~(UncategorizedDir \in org.dirs)
       THEN org' = [org EXCEPT !.pc = "done"]
       ELSE \E order \in Orders({p[2] : p \in {q \in DOMAIN org.mp3 : q[1] = UncategorizedDir}}) :
                org' = [org EXCEPT !.pc = "loop",
                                   !.dirs = @ \cup {Categories[c] : c \in 1..Len(Categories)},
                                   !.stats = NoStats,
                                   !.mp3_files = order,
                                   !.i = 1]
    /\ UNCHANGED <<dlvars, sm, ys>>

\* Lines 42-88: one iteration of the loop over mp3_files.
OrganizeStep(outcome) ==
    /\ org.pc = "loop"
    /\ org.i <= Len(org.mp3_files)
    /\ LET name == org.mp3_files[org.i]
           mp3_file == <<UncategorizedDir, name>>
           exists == mp3_file \in DOMAIN org.json
           read == IF exists THEN ReadMetadata(org.json[mp3_file])
                   ELSE [raised |-> FALSE, text |-> <<>>]
           category == IF exists THEN first_category(read.text) ELSE "other"
           target == <<category, name>>
           dirs == IF category = "other" THEN org.dirs \cup {"other"} ELSE org.dirs
       IN  /\ outcome = "json_error" => exists /\ ~read.raised
           /\ org' =
                IF read.raised
                THEN [org EXCEPT !.i = @ + 1]
                ELSE IF outcome = "mp3_error"
                THEN [org EXCEPT !.i = @ + 1, !.dirs = dirs, !.move_failed = TRUE]
                ELSE IF outcome = "json_error"
                THEN [org EXCEPT !.i = @ + 1, !.dirs = dirs, !.move_failed = TRUE,
                                 !.mp3 = Move(@, mp3_file, target)]
                ELSE [org EXCEPT !.i = @ + 1, !.dirs = dirs,
                                 !.mp3 = Move(@, mp3_file, target),
                                 !.json = IF exists THEN Move(@, mp3_file, target) ELSE @,
                                 !.stats = [@ EXCEPT ![category] = @ + 1]]
    /\ UNCHANGED <<dlvars, sm, ys>>

\* Lines 90-113: the statistics, the removal of the uncategorized folder when it
\* is empty, and create_playlists: one playlist per folder, other than
\* uncategorized, that holds an MP3.
OrganizeFinish ==
    /\ org.pc = "loop"
    /\ org.i > Len(org.mp3_files)
    /\ LET empty == \A p \in DOMAIN org.mp3 \cup DOMAIN org.json : p[1] # UncategorizedDir
       IN  org' = [org EXCEPT !.pc = "done",
                              !.total_moved = SumStats(org.stats, 1),
                              !.dirs = IF empty THEN @ \ {UncategorizedDir} ELSE @,
                              !.playlists = {p[1] : p \in DOMAIN org.mp3} \ {UncategorizedDir}]
    /\ UNCHANGED <<dlvars, sm, ys>>

NextOrganize ==
    \/ OrganizeBegin
    \/ \E outcome \in MoveOutcomes : OrganizeStep(outcome)
    \/ OrganizeFinish

SpecOrganize == InitOrganize /\ [][NextOrganize]_vars

\* ---------------------------------------------------------------------------
\* stream_now.py: YouTubeStreamer and the script around it

\* STREAM_DURATION of stream_now.py, in seconds.
STREAM_DURATION == 300

\* timedelta.seconds is the seconds within the day.
SecondsPerDay == 86400
seconds(delta) == delta % SecondsPerDay

\* The longest a time.sleep(1) of a monitoring loop takes, in seconds.
MaxSleep == 2

\* A monitoring loop that stops only after the limit has passed.
TimeLimitReached_late(elapsed) == elapsed > STREAM_DURATION

\* Line 227: elapsed >= STREAM_DURATION.
TimeLimitReached(elapsed) == elapsed >= STREAM_DURATION

Signals == {"SIGINT", "SIGTERM"}

\* The script has not been started.  now is the time since start_time.
StreamerOff ==
    [pc |-> "off", proc |-> "none", now |-> 0, terminated |-> FALSE, stopped |-> FALSE,
     success |-> "none", signal |-> "none", cleaned |-> FALSE, exit_code |-> "none"]

InitStreamer ==
    /\ DownloaderOff
    /\ org = NoOrganizer
    /\ sm = NoStream
    /\ ys = StreamerOff

\* Lines 265-310 and start (166-218) up to the call of monitor: the checks of
\* FFmpeg and of the audio folder, the video, the launch of FFmpeg.  start
\* returns False without a video and when Popen raises; cleanup runs in the
\* finally.
StreamerStart(ffmpeg, audio, video, popen) ==
    /\ ys.pc = "off"
    /\ ys' = IF ~ffmpeg \/ ~audio
             THEN [ys EXCEPT !.pc = "exited", !.exit_code = 1]
             ELSE IF ~video \/ ~popen
             THEN [ys EXCEPT !.pc = "exited", !.success = "False", !.cleaned = TRUE,
                             !.exit_code = 0]
             ELSE [ys EXCEPT !.pc = "monitor", !.proc = "running", !.now = 0]
    /\ UNCHANGED <<dlvars, org, sm>>

\* Lines 223-238: one pass of the loop of monitor, sleep seconds long.  When
\* the process has exited the loop ends, start returns True and the script
\* runs cleanup and ends.  At the time limit stop is entered: terminate is
\* sent and wait begins.
MonitorStep(sleep) ==
    /\ ys.pc = "monitor"
    /\ ys' = IF ys.proc # "running"
             THEN [ys EXCEPT !.pc = "exited", !.success = "True", !.cleaned = TRUE,
                             !.exit_code = 0]
             ELSE IF TimeLimitReached(seconds(ys.now))
             THEN [ys EXCEPT !.pc = "stopping", !.terminated = TRUE]
             ELSE [ys EXCEPT !.now = @ + sleep]
    /\ UNCHANGED <<dlvars, org, sm>>

\* Lines 251-252, 230, 214, 305-310: the process ends, wait returns, stop
\* returns, the loop is left, start returns True, cleanup runs.
StopWait ==
    /\ ys.pc = "stopping"
    /\ ys' = [ys EXCEPT !.pc = "exited", !.proc = "exited", !.stopped = TRUE,
                        !.success = "True", !.cleaned = TRUE, !.exit_code = 0]
    /\ UNCHANGED <<dlvars, org, sm>>

\* FFmpeg ends on its own: the connection drops, an input is unreadable.
ProcessExits ==
    /\ ys.proc = "running"
    /\ ys' = [ys EXCEPT !.proc = "exited"]
    /\ UNCHANGED <<dlvars, org, sm>>

\* Lines 267-272: SIGINT or SIGTERM arrives while monitor runs.  handle_signal
\* calls sys.exit(0); the SystemExit it raises is not a KeyboardInterrupt and
\* not an Exception, so it passes the handlers of monitor (240-244), of start
\* (216) and of the script (307); the finally of line 309 runs cleanup and the
\* script ends.
Signal(sig) ==
    /\ ys.pc \in {"monitor", "stopping"}
    /\ ys' = [ys EXCEPT !.pc = "exited", !.signal = sig, !.cleaned = TRUE, !.exit_code = 0]
    /\ UNCHANGED <<dlvars, org, sm>>

NextStreamer ==
    \/ \E ffmpeg \in BOOLEAN, audio \in BOOLEAN, video \in BOOLEAN, popen \in BOOLEAN :
           StreamerStart(ffmpeg, audio, video, popen)
    \/ \E sleep \in 1..MaxSleep : MonitorStep(sleep)
    \/ StopWait
    \/ ProcessExits
    \/ \E sig \in Signals : Signal(sig)

SpecStreamer == InitStreamer /\ [][NextStreamer]_vars

\* ---------------------------------------------------------------------------
\* youtube_live.py: YouTubeAutoStream.run and its StreamManager

\* Config.STREAM_DURATION, Config.MAX_RESTARTS.
Config_STREAM_DURATION == 43200
Config_MAX_RESTARTS == 5

\* wait(timeout=10) in stop_stream.
WaitTimeout == 10

\* How long past Config.STREAM_DURATION the clock is followed, in seconds.
Overrun == 60
Horizon == Config_STREAM_DURATION + Overrun

\* The amounts of time, in seconds, that pass at once while the monitor is
\* blocked reading the output of FFmpeg.
TickSizes == {60, 3600}

\* A wait that never times out.
WaitExpired_never(waited) == FALSE

\* Line 499-501: wait(timeout=10) raises TimeoutExpired.
WaitExpired(waited) == waited >= WaitTimeout

\* Line 477.
DurationReached(stream_duration) == stream_duration >= Config_STREAM_DURATION

\* poll() is None.
PollIsNone(proc) == proc = "running"

\* The program has not been started.  now is the time since start_time.
StreamOff ==
    [pc |-> "off", proc |-> "none", now |-> 0, waited |-> 0, resume |-> "none",
     terminated |-> FALSE, killed |-> FALSE, running |-> TRUE, restart_count |-> 0,
     launches |-> 0, audio |-> FALSE, prerequisites |-> FALSE, stream_started |-> "none",
     popen_raised |-> FALSE, died_early |-> FALSE]

InitStream ==
    /\ DownloaderOff
    /\ org = NoOrganizer
    /\ ys = NoStreamer
    /\ sm = StreamOff

\* Lines 491-495 of stop_stream, entered at position back: with a process that
\* has not exited, terminate is sent and the wait begins; otherwise stop_stream
\* returns at once.
stop_stream(s, back) ==
    IF s.proc # "none" /\ PollIsNone(s.proc)
    THEN [s EXCEPT !.pc = "waiting", !.terminated = TRUE, !.waited = 0, !.resume = back]
    ELSE [s EXCEPT !.pc = back]

\* run (572-602) up to the countdown: check_prerequisites fails without the
\* keys or FFmpeg and passes without audio files (565-570); run returns when
\* the video cannot be downloaded.
StreamPrepare(keys, ffmpeg, audio, video) ==
    /\ sm.pc = "off"
    /\ sm' = IF ~keys \/ ~ffmpeg
             THEN [sm EXCEPT !.pc = "finished"]
             ELSE IF ~video
             THEN [sm EXCEPT !.pc = "finished", !.prerequisites = TRUE, !.audio = audio]
             ELSE [sm EXCEPT !.pc = "countdown", !.prerequisites = TRUE, !.audio = audio]
    /\ UNCHANGED <<dlvars, org, ys>>

\* start_stream (409-446) up to the call of monitor_stream: without audio
\* files create_audio_playlist returns None (212-214) and start_stream returns
\* False (417-419), as it does when Popen raises (448-450).
StreamLaunch(popen) ==
    /\ sm.pc = "countdown"
    /\ sm' = IF ~sm.audio
             THEN [sm EXCEPT !.pc = "finished", !.stream_started = "False"]
             ELSE IF ~popen
             THEN [sm EXCEPT !.pc = "finished", !.stream_started = "False",
                             !.popen_raised = TRUE]
             ELSE [sm EXCEPT !.pc = "poll", !.proc = "running", !.now = 0,
                             !.launches = @ + 1]
    /\ UNCHANGED <<dlvars, org, ys>>

\* Line 456: the condition of the loop of monitor_stream.  With the process
\* reaped the loop ends, start_stream returns True and run finishes.
MonitorPoll ==
    /\ sm.pc = "poll"
    /\ sm' = IF PollIsNone(sm.proc)
             THEN [sm EXCEPT !.pc = "reading"]
             ELSE [sm EXCEPT !.pc = "finished", !.stream_started = "True"]
    /\ UNCHANGED <<dlvars, org, ys>>

\* Lines 458-473: for line in iter(stdout.readline, ''): while FFmpeg runs the
\* loop reads its lines or blocks waiting for one; it ends at end of file only.
Tick(d) ==
    /\ sm.pc = "reading"
    /\ sm.proc = "running"
    /\ sm.now + d <= Horizon
    /\ sm' = [sm EXCEPT !.now = @ + d]
    /\ UNCHANGED <<dlvars, org, ys>>

\* Lines 475-487, reached at the end of file of the output of FFmpeg, that is
\* when FFmpeg has ended: the duration check, the check of the process, the
\* sleep.
AfterEOF(sleep) ==
    /\ sm.pc = "reading"
    /\ sm.proc # "running"
    /\ sm' = IF DurationReached(seconds(sm.now))
             THEN stop_stream(sm, "stopped")
             ELSE IF ~PollIsNone(sm.proc)
             THEN [sm EXCEPT !.pc = "finished", !.stream_started = "True"]
             ELSE [sm EXCEPT !.pc = "poll", !.now = @ + sleep]
    /\ UNCHANGED <<dlvars, org, ys>>

\* Lines 480, 446, 608-625: after stop_stream has returned to monitor_stream
\* the loop is left, start_stream returns True and run finishes.
MonitorStopped ==
    /\ sm.pc = "stopped"
    /\ sm' = [sm EXCEPT !.pc = "finished", !.stream_started = "True"]
    /\ UNCHANGED <<dlvars, org, ys>>

\* Line 499: a second of wait(timeout=10) passes.
WaitTick ==
    /\ sm.pc = "waiting"
    /\ sm.proc # "exited"
    /\ ~WaitExpired(sm.waited)
    /\ sm' = [sm EXCEPT !.waited = @ + 1, !.now = @ + 1]
    /\ UNCHANGED <<dlvars, org, ys>>

\* Line 499-500: the process has exited and wait returns.
WaitReturns ==
    /\ sm.pc = "waiting"
    /\ sm.proc = "exited"
    /\ sm' = [sm EXCEPT !.pc = sm.resume, !.resume = "none"]
    /\ UNCHANGED <<dlvars, org, ys>>

\* Lines 501-504: TimeoutExpired; kill, and the wait for the killed process.
Kill ==
    /\ sm.pc = "waiting"
    /\ sm.proc # "exited"
    /\ WaitExpired(sm.waited)
    /\ sm' = [sm EXCEPT !.pc = sm.resume, !.resume = "none", !.killed = TRUE,
                        !.proc = "exited"]
    /\ UNCHANGED <<dlvars, org, ys>>

\* FFmpeg ends, on its own or on the terminate it was sent: its output is at
\* end of file and poll() returns its exit code.
ProcessEnds ==
    /\ sm.proc = "running"
    /\ sm' = [sm EXCEPT !.proc = "exited",
                        !.died_early = ~sm.terminated
                                       /\ ~DurationReached(seconds(sm.now))]
    /\ UNCHANGED <<dlvars, org, ys>>

\* Lines 537-541: signal_handler runs in the main thread, before the stream
\* is launched or while monitor_stream runs: running = False, stop_stream();
\* then the interrupted code goes on.
SignalHandler(sig) ==
    /\ sm.pc \in {"countdown", "poll", "reading"}
    /\ sm.running
    /\ sm' = stop_stream([sm EXCEPT !.running = FALSE], sm.pc)
    /\ UNCHANGED <<dlvars, org, ys>>

NextStream ==
    \/ \E keys \in BOOLEAN, ffmpeg \in BOOLEAN, audio \in BOOLEAN, video \in BOOLEAN :
           StreamPrepare(keys, ffmpeg, audio, video)
    \/ \E popen \in BOOLEAN : StreamLaunch(popen)
    \/ MonitorPoll
    \/ \E d \in TickSizes : Tick(d)
    \/ \E sleep \in 1..MaxSleep : AfterEOF(sleep)
    \/ MonitorStopped
    \/ WaitTick
    \/ WaitReturns
    \/ Kill
    \/ ProcessEnds
    \/ \E sig \in Signals : SignalHandler(sig)

SpecStream == InitStream /\ [][NextStream]_vars

\* stop_stream goes on once entered: the seconds of wait(timeout=10) pass, wait
\* returns when the process has exited, and a killed process exits.
StopProceeds == WaitTick \/ WaitReturns \/ Kill

LiveStream == InitStream /\ [][NextStream]_vars /\ WF_vars(StopProceeds)

\* ----------------------------------------------------------------- claims
\* Shorthands of the formulas below.
Count(x, seq) == Cardinality({i \in 1..Len(seq) : seq[i] = x})
InSeq(x, seq) == \E i \in 1..Len(seq) : seq[i] = x

\* The track the next iteration of download_batch works on.
Current == Track(queue[idx])

\* The step is an iteration of download_batch in which the download_track call
\* returns (and not the interrupt of the batch).
CallReturns == pc = "batch" /\ report'.title # "interrupted"

\* The track has an identifier and names from which an artifact path follows.
HasArtifactPath(t) == Truthy(Get(t, "id", Str(<<>>))) /\ NamesAreStrings(t)

NonEmptyFile(fs, path) == path \in DOMAIN fs /\ fs[path] > 0
ZeroByteFile(fs, path) == path \in DOMAIN fs /\ fs[path] = 0

\* No two positions of the manifest carry the same identifier.
UniqueIds(m) == \A i, j \in 1..Len(m) : i # j => IdOf(Track(m[i])) # IdOf(Track(m[j]))

\* The identifiers of the manifest's items that have one.
ManifestIds == {IdOf(Track(manifest[i])) : i \in 1..Len(manifest)} \ {<<>>}

\* C1: a download_track call adds an identifier to downloaded_ids if and only
\* if, when the call ends, the item's artifact file exists and is non-empty; no
\* identifier is added whose file is missing or zero bytes long.
C1_AddedIffArtifactNonEmpty ==
    [][CallReturns =>
         /\ \A id \in downloaded_ids' \ downloaded_ids :
                id = IdOf(Current) /\ NonEmptyFile(files', FilePath(Current))
         /\ (HasArtifactPath(Current) /\ IdOf(Current) \notin downloaded_ids
               /\ NonEmptyFile(files', FilePath(Current)))
            => IdOf(Current) \in downloaded_ids']_vars

\* C2: whenever download_track returns False for an item, no zero-byte file is
\* left at the item's artifact path.
C2_NoZeroByteAfterFalse ==
    [][(CallReturns /\ last'.ret = "False" /\ HasArtifactPath(Current))
         => ~ZeroByteFile(files', FilePath(Current))]_vars

\* C3 as stated: when a run over the fetched manifest ends, every item whose
\* identifier is in the completed-set and whose artifact file is not on disk
\* has had a network retrieval issued for it.
C3_StaleEntryIsRetrieved ==
    (pc = "done" /\ ~FetchFails(response)) =>
        \A i \in 1..Len(all_tracks) :
            LET t == Track(all_tracks[i])
            IN  (HasArtifactPath(t) /\ IdOf(t) \in downloaded_ids
                   /\ FilePath(t) \notin DOMAIN files)
                => InSeq(IdOf(t), requests)

\* C3 as amended: no step issues a network retrieval for an identifier that is
\* in the completed-set, whether or not the artifact file exists.
C3_MemberIsNeverRetrieved ==
    [][\A id \in downloaded_ids : Count(id, requests') <= Count(id, requests)]_vars

\* A run over the fetched manifest has ended, an item of it is in the
\* completed-set, its file is not on disk and no retrieval was issued for it.
C3_Witness ==
    /\ pc = "done"
    /\ ~FetchFails(response)
    /\ \E i \in 1..Len(all_tracks) :
           LET t == Track(all_tracks[i])
           IN  /\ HasArtifactPath(t)
               /\ IdOf(t) \in downloaded_ids
               /\ FilePath(t) \notin DOMAIN files
               /\ ~InSeq(IdOf(t), requests)

\* C4: while the identifier of a manifest item is in the completed-set and the
\* item's artifact file is on disk, no step of run, download_batch or
\* download_track issues a network retrieval for it.
C4_CompletedItemsCostNoRequest ==
    [][\A i \in 1..Len(manifest) :
         LET t == Track(manifest[i])
         IN  (HasArtifactPath(t) /\ IdOf(t) \in downloaded_ids
                /\ FilePath(t) \in DOMAIN files)
             => Count(IdOf(t), requests') <= Count(IdOf(t), requests)]_vars

\* A second run over the fetched manifest has ended; an item of it was in the
\* completed-set with its file on disk when the run before ended, and the
\* second run issued no retrieval for it.
C4_Witness ==
    /\ pc = "done"
    /\ runs >= 2
    /\ ~FetchFails(response)
    /\ \E i \in 1..Len(all_tracks) :
           LET t == Track(all_tracks[i])
           IN  /\ HasArtifactPath(t)
               /\ IdOf(t) \in prev.ids
               /\ FilePath(t) \in prev.paths
               /\ ~InSeq(IdOf(t), requests)

\* C5 as stated: when a second run on the unchanged manifest ends, the
\* completed-set equals the one the run before ended with and the artifact
\* files are the same.
C5_SecondRunChangesNothing ==
    (pc = "done" /\ runs >= 2) =>
        (downloaded_ids = prev.ids /\ DOMAIN files = prev.paths)

\* The run before ended with every identifier of the manifest in the
\* completed-set and with the history file holding that set.
FirstRunCompletedAll == prev.saved /\ ManifestIds \subseteq prev.ids

\* C5 as amended: when the run before ended with every identifier of the
\* manifest in the completed-set and the history file holding that set, a
\* later run has, from its start to its end, the same completed-set and the
\* same artifact files.
C5_SecondRunAfterCompleteRunChangesNothing ==
    (runs >= 2 /\ pc \in {"ready", "batch", "done"} /\ FirstRunCompletedAll) =>
        (downloaded_ids = prev.ids /\ DOMAIN files = prev.paths)

\* A second run has fetched the manifest and ended after a run that completed
\* every item of a manifest of two identifiers.
C5_Witness ==
    /\ pc = "done"
    /\ runs >= 2
    /\ ~FetchFails(response)
    /\ FirstRunCompletedAll
    /\ Cardinality(ManifestIds) >= 2

\* C6: when a later run works on an item whose retrieval failed in an earlier
\* run, it issues a network retrieval for it, and records it as completed only
\* with a non-empty artifact.
C6_FailedItemIsRetried ==
    [][(CallReturns /\ HasArtifactPath(Current) /\ IdOf(Current) \in failedEarlier
          /\ IdOf(Current) \notin downloaded_ids)
         => /\ last'.fetched
            /\ IdOf(Current) \in downloaded_ids'
                 => NonEmptyFile(files', FilePath(Current))]_vars

\* C7: when a run over a manifest of unique identifiers ends, every identifier
\* whose retrieval failed in the run was retrieved once and is neither in
\* downloaded_ids nor in the history file.
C7_FailureIsTerminalInRun ==
    (pc = "done" /\ UniqueIds(manifest)) =>
        \A id \in failedNow :
            /\ Count(id, requests) = 1
            /\ id \notin downloaded_ids
            /\ id \notin load_downloaded_ids(histfile).ids

\* A run over two items of different identifiers has ended; one retrieval
\* failed and the other item was recorded.
C7_Witness ==
    /\ pc = "done"
    /\ UniqueIds(manifest)
    /\ Len(queue) = 2
    /\ failedNow # {}
    /\ successful = 1

\* The history files C8 speaks of: missing, unreadable, not JSON, or JSON of
\* another shape than an object whose downloaded_ids is a list of strings.
UnexpectedHistory(h) == h.kind # "list"

\* The shapes on which reading, parsing or set() fails, and the object without
\* the key.
FailingHistory(h) ==
    h.kind \in {"missing", "unreadable", "invalid", "toplist", "nokey", "null", "unhashable"}

\* The constructor has returned and run has not begun: histfile is the file
\* load_downloaded_ids read.
JustLoaded == pc \in {"ready", "crashed"} /\ response = NoResponse

\* C8 as stated: load_downloaded_ids returns the empty set and does not raise
\* whenever the history file is missing, unreadable, not JSON or of an
\* unexpected shape.
C8_UnexpectedHistoryLoadsEmpty ==
    (JustLoaded /\ UnexpectedHistory(histfile)) => (pc = "ready" /\ downloaded_ids = {})

\* C8 as amended: load_downloaded_ids never raises; it returns the empty set
\* when the file is missing, unreadable, not JSON, not an object, without the
\* key, or when set() fails on the value (null, unhashable entries); a string
\* value yields its characters and an object value its keys.  After an empty
\* load, run hands every fetched item to download_batch.
C8_FailingHistoryLoadsEmpty ==
    /\ pc # "crashed"
    /\ (JustLoaded /\ FailingHistory(histfile)) => downloaded_ids = {}
    /\ (JustLoaded /\ histfile.kind = "string")
         => downloaded_ids = UNION {Chars(x) : x \in histfile.val}
    /\ (JustLoaded /\ histfile.kind = "object") => downloaded_ids = histfile.val
    /\ (pc = "batch" /\ last = NoCall /\ FailingHistory(histfile)) => queue = all_tracks

\* The constructor has returned the empty set for a history file whose list
\* holds an unhashable entry.
C8_Witness ==
    /\ JustLoaded
    /\ pc = "ready"
    /\ histfile.kind = "unhashable"
    /\ downloaded_ids = {}

\* C9: when the manifest fetch fails, fetch_all_tracks returns the empty
\* sequence without raising and run returns: the completed-set, the history
\* file and the files are as before and no retrieval is issued.
C9_FetchFailureIsNoWork ==
    /\ [][(pc = "ready" /\ FetchFails(response'))
            => /\ pc' = "done"
               /\ all_tracks' = <<>>
               /\ queue' = <<>>
               /\ UNCHANGED <<downloaded_ids, histfile, files, sidecars, folders, requests>>]_vars
    /\ []((pc = "done" /\ FetchFails(response)) => (requests = <<>> /\ last = NoCall))

\* A run has ended on a non-2xx answer of the manifest endpoint while the
\* endpoint has items to serve.
C9_Witness ==
    /\ pc = "done"
    /\ response.status = "http_error"
    /\ manifest # <<>>
    /\ requests = <<>>

\* C10: no download_track call raises to its caller; a call in which an error
\* occurs, and a call for an item without identifier, returns False.
C10_DownloadTrackNeverRaises ==
    /\ last.ret # "raise"
    /\ last.exc # "none" => last.ret = "False"
    /\ (last.ret # "none" /\ IdOf(Track(last.track)) = <<>>) => last.ret = "False"

\* A call for an item whose name is null has returned False.
C10_Witness == last.exc = "TypeError" /\ last.ret = "False"

\* C11 as stated: after each successful retrieval, before the next item is
\* started, the history file has been rewritten and its identifier list equals
\* the completed-set in memory, the identifier just retrieved included.
C11_HistoryEqualsSetAfterEachSuccess ==
    [][(CallReturns /\ last'.fetched /\ last'.ret = "True")
         => /\ IdOf(Current) \in downloaded_ids'
            /\ histfile' = Hist("list", downloaded_ids')]_vars

\* C11 as amended: each successful retrieval adds the identifier to the set in
\* memory and writes the history file before the call returns; when the write
\* succeeds the file lists exactly that set, when open fails the file is as it
\* was, when json.dump fails the file is left unparsable; the call returns True
\* in all three cases.
C11_HistoryWrittenAfterEachSuccess ==
    [][(CallReturns /\ last'.fetched /\ last'.ret = "True")
         => /\ IdOf(Current) \in downloaded_ids'
            /\ last'.saved \in WriteOutcomes
            /\ last'.saved = "ok" => histfile' = Hist("list", downloaded_ids')
            /\ last'.saved = "open_error" => histfile' = histfile
            /\ last'.saved = "dump_error" => histfile' = Hist("invalid", {})]_vars

\* The first of two items was retrieved and the history file, written before
\* the second item is started, lists the set in memory.
C11_Witness ==
    /\ pc = "batch"
    /\ idx = 2
    /\ last.fetched
    /\ last.ret = "True"
    /\ last.saved = "ok"
    /\ IdOf(Track(last.track)) \in downloaded_ids
    /\ histfile = Hist("list", downloaded_ids)

\* C12: from the construction of the downloader to the end of its run no step
\* removes an identifier from downloaded_ids; the set changes only by a
\* download_track call adding the identifier of its item, and is never read
\* again from the history file, whatever the file holds by then.
C12_CompletedSetGrowsMonotonically ==
    [][pc # "off" =>
         /\ downloaded_ids \subseteq downloaded_ids'
         /\ loaded' = loaded
         /\ loaded \subseteq downloaded_ids'
         /\ downloaded_ids' # downloaded_ids =>
                (CallReturns /\ downloaded_ids' = downloaded_ids \cup {IdOf(Current)})]_vars

\* A run has ended whose set was loaded with one identifier and grew by
\* another, while the history file was left unparsable by a failed write: the
\* set in memory still holds both.
C12_Witness ==
    /\ pc = "done"
    /\ loaded = {A1}
    /\ histfile = Hist("invalid", {})
    /\ loaded \subseteq downloaded_ids
    /\ Cardinality(downloaded_ids) = 2

\* The item has no grouping tag: genre and mood are each missing, null or empty.
NoTag(t) == \A key \in {"genre", "mood"} : key \notin DOMAIN t \/ t[key] \in {Null, Str(<<>>)}

\* C13: every download_track call for an item that is not yet completed
\* resolves a folder without a type error: one folder with a non-empty name
\* exists after the call, any file the call creates lies in it, and for an item
\* whose genre and mood are missing, null or empty that folder is
\* "uncategorized".
C13_FolderIsTotal ==
    [][(CallReturns /\ Truthy(Get(Current, "id", Str(<<>>)))
          /\ IdOf(Current) \notin downloaded_ids)
         => \E f \in folders' :
                /\ f # <<>>
                /\ folders' = folders \cup {f}
                /\ last'.exc \notin {"AttributeError", "TypeError"}
                /\ \A p \in DOMAIN files' \ DOMAIN files : p[1] = f
                /\ NoTag(Current) => f = Uncategorized]_vars

\* An item whose genre and mood are null was retrieved into "uncategorized".
C13_Witness ==
    /\ last.track = "TagNull"
    /\ last.fetched
    /\ last.ret = "True"
    /\ folders = {Uncategorized}
    /\ \E p \in DOMAIN files : p[1] = Uncategorized /\ files[p] > 0

\* C14: no download_track call changes, renames or removes an artifact file
\* that exists when the call begins, and a call for an item whose artifact path
\* is taken by an existing file issues no retrieval and returns True.
C14_FirstWriteWins ==
    [][CallReturns =>
         /\ \A p \in DOMAIN files : p \in DOMAIN files' /\ files'[p] = files[p]
         /\ (HasArtifactPath(Current) /\ IdOf(Current) \notin downloaded_ids
               /\ FilePath(Current) \in DOMAIN files)
            => /\ ~last'.fetched
               /\ requests' = requests
               /\ DOMAIN files' = DOMAIN files
               /\ last'.ret = "True"]_vars

\* Two items of different identifiers resolve to one path: the first was
\* retrieved, the second was skipped by the existence check, one file exists.
C14_Witness ==
    /\ pc = "done"
    /\ queue = <<"A", "A3">>
    /\ FilePath(TrackA) = FilePath(TrackA3)
    /\ requests = <<A1>>
    /\ last.track = "A3"
    /\ ~last.fetched
    /\ last.ret = "True"
    /\ DOMAIN files = {FilePath(TrackA)}

\* download_batch went through its whole queue and run printed the counters.
BatchComplete == pc = "done" /\ report.title = "complete"

\* The artifact files that exist now and did not when the run began.
CreatedFiles == DOMAIN files \ prev.paths

\* No two items of q resolve to the same artifact path.
DistinctPaths(q) ==
    \A i, j \in 1..Len(q) : i # j => FilePath(Track(q[i])) # FilePath(Track(q[j]))

\* C15 as stated: after a run over a manifest of unique identifiers in which
\* no call failed, the number of artifact files the run created equals the
\* number of manifest items that were not completed when it began.
C15_OneArtifactPerNewItem ==
    (BatchComplete /\ UniqueIds(manifest) /\ failed = 0)
        => Cardinality(CreatedFiles) = Len(queue)

\* C15 where no collision occurs: the same, for a manifest whose items that are
\* not yet completed resolve to pairwise distinct artifact paths, none of which
\* is on disk when the run begins; each file created is non-empty.
C15_OneArtifactPerNewPath ==
    (BatchComplete /\ UniqueIds(manifest) /\ failed = 0 /\ DistinctPaths(queue)
       /\ \A i \in 1..Len(queue) : FilePath(Track(queue[i])) \notin prev.paths)
        => /\ Cardinality(CreatedFiles) = Len(queue)
           /\ CreatedFiles = {FilePath(Track(queue[i])) : i \in 1..Len(queue)}
           /\ \A p \in CreatedFiles : files[p] > 0

\* A run over two new items of distinct paths has ended without a failure and
\* created two files.
C15_Witness ==
    /\ BatchComplete
    /\ UniqueIds(manifest)
    /\ failed = 0
    /\ Len(queue) = 2
    /\ DistinctPaths(queue)
    /\ Cardinality(CreatedFiles) = 2

\* The positions of the manifest run works on whose item was completed when the
\* run began: identifier in the loaded set, artifact on disk.
AlreadyCompleted ==
    {i \in 1..Len(all_tracks) :
        /\ IdOf(Track(all_tracks[i])) \in loaded
        /\ FilePath(Track(all_tracks[i])) \in prev.paths}

\* The positions whose identifier was in the loaded set.
InLoaded == {i \in 1..Len(all_tracks) : IdOf(Track(all_tracks[i])) \in loaded}

\* The number of items retrieved by this run: files it created that have their
\* metadata file, which only a verified retrieval writes.
NewlyRetrieved == Cardinality(CreatedFiles \cap sidecars)

\* The manifest holds completed items together with new ones.
Mixed == AlreadyCompleted # {} /\ queue # <<>>

\* C16 as stated: after a run over a manifest that holds completed items
\* together with new ones, no retrieval was issued for a completed item, the
\* reported success count is the number of items newly retrieved, and a
\* skipped count is reported that is the number of completed items.
C16_ReportsSuccessAndSkipped ==
    (BatchComplete /\ UniqueIds(manifest) /\ Mixed /\ Len(requests) = Len(queue)
       /\ failed = 0) =>
        /\ \A i \in AlreadyCompleted : ~InSeq(IdOf(Track(all_tracks[i])), requests)
        /\ report.counts["successful"] = NewlyRetrieved
        /\ "skipped" \in DOMAIN report.counts
        /\ report.counts["skipped"] = Cardinality(AlreadyCompleted)

\* C16 as amended: after such a run no retrieval was issued for an item whose
\* identifier was in the loaded set; download_batch was handed exactly the
\* other items; run reports a success and a failure count and nothing else;
\* the success count is at least the number of items newly retrieved, and
\* equals it when a retrieval was issued for every new item.
C16_OnlyNewItemsRetrieved ==
    (BatchComplete /\ UniqueIds(manifest)) =>
        /\ \A id \in loaded : ~InSeq(id, requests)
        /\ Len(queue) = Len(all_tracks) - Cardinality(InLoaded)
        /\ DOMAIN report.counts = {"successful", "failed"}
        /\ report.counts["successful"] = successful
        /\ report.counts["failed"] = failed
        /\ NewlyRetrieved <= successful
        /\ Len(requests) = Len(queue) => successful + failed = Len(requests)
        /\ (Len(requests) = Len(queue) /\ failed = 0) => successful = NewlyRetrieved

\* A run over a completed item and a new one has ended: one retrieval, for the
\* new item, and a reported success count of one.
C16_Witness ==
    /\ BatchComplete
    /\ UniqueIds(manifest)
    /\ Mixed
    /\ Len(all_tracks) = 2
    /\ Len(queue) = 1
    /\ Len(requests) = 1
    /\ NewlyRetrieved = 1
    /\ report.counts["successful"] = 1

\* C17: a download_track call whose retrieval ends without an exception and
\* with a body of no bytes returns False, leaves no file at the item's path,
\* adds one to the failure count and nothing to the success count, and leaves
\* the completed-set and the history file as they were; when the run over a
\* manifest of unique identifiers ends, the identifier is not in the
\* completed-set.
C17_ZeroByteBodyIsDiscarded ==
    /\ [][(CallReturns /\ last'.empty)
            => /\ last'.ret = "False"
               /\ FilePath(Current) \notin DOMAIN files'
               /\ failed' = failed + 1
               /\ successful' = successful
               /\ UNCHANGED <<downloaded_ids, histfile, sidecars>>]_vars
    /\ [](last.empty => IdOf(Track(last.track)) \in failedNow)
    /\ []((pc = "done" /\ UniqueIds(manifest)) => failedNow \cap downloaded_ids = {})

\* A run over two items has ended: the first was retrieved, the second came
\* with an empty body, its file is gone, its identifier is not recorded, the
\* failure count is one.
C17_Witness ==
    /\ BatchComplete
    /\ UniqueIds(manifest)
    /\ Len(queue) = 2
    /\ last.empty
    /\ last.ret = "False"
    /\ report.counts["failed"] = 1
    /\ report.counts["successful"] = 1
    /\ FilePath(Track(last.track)) \notin DOMAIN files
    /\ IdOf(Track(last.track)) \notin downloaded_ids

\* C18: when a run that began with an empty completed-set and worked on the
\* whole manifest ends with no failed call, the completed-set is exactly the
\* set of the identifiers of the manifest's items, and the reported counts are
\* one success per manifest item and no failure.
C18_FreshRunCompletesManifest ==
    (BatchComplete /\ loaded = {} /\ all_tracks = manifest /\ failed = 0) =>
        /\ downloaded_ids = ManifestIds
        /\ successful = Len(manifest)
        /\ report.counts = Counts(Len(manifest), 0)

\* A first run over two items of different identifiers and paths has ended:
\* both were retrieved and both identifiers are in the completed-set.
C18_Witness ==
    /\ BatchComplete
    /\ loaded = {}
    /\ manifest = <<"A", "B">>
    /\ all_tracks = manifest
    /\ failed = 0
    /\ requests = <<A1, A2>>
    /\ downloaded_ids = {A1, A2}
    /\ \A i \in 1..2 : NonEmptyFile(files, FilePath(Track(manifest[i])))

\* C19: when the user interrupts a batch, the item under way has finished
\* before the loop stops: every file that appears in the step is non-empty and
\* its item's identifier is recorded (otherwise no file is left); no further
\* item is started; the summary is printed.
C19_InterruptAfterCurrentItem ==
    [][(pc = "batch" /\ report'.title = "interrupted")
         => /\ report'.summary
            /\ pc' = "done"
            /\ UNCHANGED <<idx, successful, failed>>
            /\ \A p \in DOMAIN files' \ DOMAIN files :
                   /\ files'[p] > 0
                   /\ p = FilePath(Current)
                   /\ IdOf(Current) \in downloaded_ids']_vars

\* What C19 leaves true: an interrupt starts no further item, leaves the
\* counters, the completed-set and the history file as they were, and the
\* summary is printed.
C19_InterruptStartsNoItem ==
    [][(pc = "batch" /\ report'.title = "interrupted")
         => /\ report'.summary
            /\ pc' = "done"
            /\ UNCHANGED <<idx, successful, failed, downloaded_ids, histfile, last>>]_vars

FirstIds(n) == {IdOf(Track(manifest[j])) : j \in 1..Min(n, Len(manifest))}

\* run was called with a positive limit and the manifest was fetched.
Limited == pc \in {"batch", "done"} /\ opts.limit > 0 /\ ~FetchFails(response)

\* C21: when run is called with a positive limit L, only the first L items of
\* the manifest are considered: the list run works on is the manifest's first
\* L items, every retrieval request is for one of them, at most L requests
\* are made, and every identifier added to the completed-set is one of theirs.
C21_LimitCutsTheManifest ==
    Limited
        => /\ all_tracks = Prefix(manifest, opts.limit)
           /\ \A i \in 1..Len(queue) : InSeq(queue[i], Prefix(manifest, opts.limit))
           /\ Len(requests) <= opts.limit
           /\ \A i \in 1..Len(requests) : requests[i] \in FirstIds(opts.limit)
           /\ downloaded_ids \ loaded \subseteq FirstIds(opts.limit)

\* A run with limit 1 over a manifest of two new items with different
\* identifiers has ended: the first was retrieved, the second was not asked
\* for and is not in the completed-set.
C21_Witness ==
    /\ BatchComplete
    /\ opts.limit = 1
    /\ Len(manifest) = 2
    /\ loaded = {}
    /\ IdOf(Track(manifest[2])) # IdOf(Track(manifest[1]))
    /\ requests = <<IdOf(Track(manifest[1]))>>
    /\ downloaded_ids = {IdOf(Track(manifest[1]))}
    /\ ~(IdOf(Track(manifest[2])) \in downloaded_ids)

\* C28: resume has no effect on which items are retrieved: whatever offset
\* run computed, download_batch is handed, and iterates from its first item,
\* the list of the fetched (and limited) items that are not in the
\* completed-set, in manifest order.
C28_ResumeChangesNothing ==
    [][(pc = "ready" /\ pc' # "crashed" /\ pc' # "ready")
          => /\ queue' = NewTracks(ApplyLimit(fetch_all_tracks(response', manifest).tracks,
                                              opts'.limit), downloaded_ids)
             /\ idx' = idx
             /\ idx = 1]_vars

\* A run called with resume over a history of one identifier computed the
\* offset 1, and still retrieved the single new item of its list.
C28_Witness ==
    /\ BatchComplete
    /\ opts.start_from = 1
    /\ Len(queue) = 1
    /\ ~(IdOf(Track(queue[1])) \in loaded)
    /\ requests = <<IdOf(Track(queue[1]))>>
    /\ successful = 1

\* ---------------------------------------------------------------------------
\* organize_audio

\* organize_audio has run through its loop and returned.
Organized == org.pc = "done" /\ UncategorizedDir \in {p[1] : p \in org.initial}

\* The names of the MP3 files that were in the uncategorized folder.
InitialNames == {p[2] : p \in {q \in org.initial : q[1] = UncategorizedDir}}

\* The folders that hold the MP3 that was uncategorized/n before the run.
HeldBy(n) == {f \in Folders : <<f, n>> \in DOMAIN org.mp3
                              /\ org.mp3[<<f, n>>] = <<UncategorizedDir, n>>}

\* The content of the metadata file of uncategorized/n before the run, or
\* "bare" when there was none: the metadata file moves with its MP3.
MetaOf(n) ==
    IF \E f \in Folders : <<f, n>> \in DOMAIN org.json
    THEN org.json[CHOOSE p \in DOMAIN org.json : p[2] = n]
    ELSE "bare"

\* The folder the text "genre mood name" of a metadata file selects, a null
\* value read as no text.
TextOf(x) == IF x.ty = "null" THEN <<>> ELSE lower(x.v)
FolderOf(k) ==
    CASE k = "bare" -> {"other"}
      [] k = "corrupt" -> Folders \ {UncategorizedDir}
      [] OTHER -> {first_category(TextOf(Get(Metadata(k), "genre", Str(<<>>))) \o <<" ">>
                                  \o TextOf(Get(Metadata(k), "mood", Str(<<>>))) \o <<" ">>
                                  \o TextOf(Get(Metadata(k), "name", Str(<<>>))))}

\* C27: when organize_audio has finished and no move failed, every MP3 that
\* was in the uncategorized folder is in exactly one folder: the first
\* category, in declaration order, with a keyword in the lower-cased text
\* "genre mood name" of its metadata file, "other" when no keyword matches or
\* there is no metadata file.
C27_EveryFileGoesToItsCategory ==
    (Organized /\ ~org.move_failed)
        => \A n \in InitialNames :
               /\ Cardinality(HeldBy(n)) = 1
               /\ HeldBy(n) \subseteq FolderOf(MetaOf(n))

\* The same for the files whose metadata file, when there is one, is readable
\* and holds no null.
Readable(k) == k = "bare" \/ (k # "corrupt" /\ ~search_text(Metadata(k)).raised)
C27_ReadableFileGoesToItsCategory ==
    (Organized /\ ~org.move_failed)
        => \A n \in InitialNames :
               Readable(MetaOf(n)) => HeldBy(n) = FolderOf(MetaOf(n))

\* Two files were organized: one to the category declared first among the
\* three its text names, one without metadata to other.
C27_Witness ==
    /\ Organized
    /\ ~org.move_failed
    /\ <<"ambient", "a">> \in DOMAIN org.mp3
    /\ org.json[<<"ambient", "a">>] = "MFirst"
    /\ <<"other", "b">> \in DOMAIN org.mp3
    /\ ~(<<"other", "b">> \in DOMAIN org.json)

\* C30: organize_audio conserves tracks.  When it has finished, every MP3 that
\* was in the uncategorized folder is in exactly one folder, every MP3 that
\* was under the base directory before the run is still there, and the total
\* of the statistics is the number of MP3 files that left the uncategorized
\* folder.
C30_TracksAreConserved ==
    Organized
        => /\ \A n \in InitialNames : Cardinality(HeldBy(n)) = 1
           /\ \A p \in org.initial : \E q \in DOMAIN org.mp3 : org.mp3[q] = p
           /\ org.total_moved
                = Cardinality({n \in InitialNames : ~(UncategorizedDir \in HeldBy(n))})

\* The part of it that holds: every MP3 of the uncategorized folder is in
\* exactly one folder afterwards.
C30_EachFileInOneFolder ==
    Organized => \A n \in InitialNames : Cardinality(HeldBy(n)) = 1

\* ---------------------------------------------------------------------------
\* stream_now.py

\* A pass of the loop of monitor: the step of the script that is neither a
\* signal nor the process ending.
Polls == ys.pc = "monitor" /\ ys'.signal = "none" /\ ys'.proc = ys.proc /\ ys' # ys

\* C23: each pass of the loop of monitor polls the process.  While the process
\* runs, the pass at which the elapsed time has reached STREAM_DURATION calls
\* stop (terminate is sent) and leaves the loop, and an earlier pass sends
\* nothing and stays in the loop; a pass that finds the process exited ends the
\* loop without a stop.  stop is called at the time limit only, and the loop is
\* never polling a running process more than one sleep after the limit.
C23_MonitorStopsAtDuration ==
    /\ [][Polls =>
            /\ (ys.proc = "running" /\ seconds(ys.now) >= STREAM_DURATION)
                   => (ys'.terminated /\ ys'.pc = "stopping")
            /\ (ys.proc = "running" /\ seconds(ys.now) < STREAM_DURATION)
                   => (~ys'.terminated /\ ys'.pc = "monitor")
            /\ ys.proc # "running" => (~ys'.terminated /\ ys'.pc = "exited")]_vars
    /\ [][ys.pc = "stopping" => ys'.pc # "monitor"]_vars
    /\ [](ys.terminated => seconds(ys.now) >= STREAM_DURATION)
    /\ []((ys.pc = "monitor" /\ ys.proc = "running") => ys.now < STREAM_DURATION + MaxSleep)

\* The stream ran to the time limit exactly, was stopped and the script ended.
C23_Witness ==
    /\ ys.pc = "exited"
    /\ ys.stopped
    /\ ys.now = STREAM_DURATION
    /\ ys.proc = "exited"
    /\ ys.success = "True"

\* The script ends.
ScriptEnds == ys.pc # "exited" /\ ys'.pc = "exited"

\* C29: no run of stream_now.py ends with the FFmpeg process still running,
\* and a run that a signal ends while the process runs has called stop
\* (terminate was sent) before it ends.
C29_SignalStopsTheStream ==
    [][ScriptEnds
         => /\ ys'.proc # "running"
            /\ (ys'.signal # "none" /\ ys.proc = "running") => ys'.terminated]_vars

\* The part of it that holds: a run that no signal ends leaves no process
\* running.
C29_NoSignalNoProcessLeft ==
    [][(ScriptEnds /\ ys'.signal = "none") => ys'.proc # "running"]_vars

\* ---------------------------------------------------------------------------
\* youtube_live.py

\* C22: a stream never keeps running past the configured duration: once the
\* elapsed time has reached Config.STREAM_DURATION (and one sleep of the loop
\* has passed) a process that still runs has been sent terminate.
C22_StreamStopsAtDuration ==
    (sm.proc = "running" /\ seconds(sm.now) >= Config_STREAM_DURATION + MaxSleep)
        => sm.terminated

\* What holds instead: terminate is sent by the signal handler only;
\* monitor_stream never sends it to a running process.
C22_OnlySignalsStopTheStream ==
    [][(~sm.terminated /\ sm'.terminated) => (sm.running /\ ~sm'.running)]_vars

\* stop_stream is entered from the signal handler.
HandlerStops == sm.running /\ ~sm'.running

\* C24: stop_stream always returns, and when it returns the process is not
\* running.  Entered with a running process it sends terminate and waits; it
\* kills the process only when the wait has lasted WaitTimeout seconds, and
\* never waits longer.  Entered with no process or with a process that has
\* exited it changes nothing.
C24_StopStreamStopsTheProcess ==
    /\ [][HandlerStops =>
            IF sm.proc = "running"
            THEN sm'.terminated /\ sm'.pc = "waiting" /\ sm'.waited = 0 /\ ~sm'.killed
            ELSE sm' = [sm EXCEPT !.running = FALSE]]_vars
    /\ [][(sm.pc = "waiting" /\ sm'.pc # "waiting") => sm'.proc = "exited"]_vars
    /\ [][(~sm.killed /\ sm'.killed) => (sm.terminated /\ sm.waited = WaitTimeout)]_vars
    /\ [](sm.pc = "waiting" => sm.waited <= WaitTimeout)
    /\ (sm.pc = "waiting" ~> sm.pc # "waiting")

\* stop_stream was called on a process that did not end on terminate: it was
\* killed after the wait and the run finished with the process exited.
C24_Witness ==
    /\ sm.pc = "finished"
    /\ sm.terminated
    /\ sm.killed
    /\ sm.waited = WaitTimeout
    /\ sm.proc = "exited"

\* C25: a run in which the stream process died before the configured
\* duration, and which nobody asked to shut down, has restarted the stream
\* before it finishes, and restart_count never exceeds MAX_RESTARTS.
C25_DiedStreamIsRestarted ==
    /\ sm.restart_count <= Config_MAX_RESTARTS
    /\ (sm.pc = "finished" /\ sm.died_early /\ sm.running)
           => (sm.launches >= 2 /\ sm.restart_count >= 1)

\* What holds instead: FFmpeg is launched at most once per run and
\* restart_count stays 0.
C25_NeverRestarts == sm.launches <= 1 /\ sm.restart_count = 0

\* C26: when no MP3 file is found, check_prerequisites passes, and the video
\* is there, run starts the stream: unless Popen raises, FFmpeg is launched.
C26_StreamStartsWithoutAudio ==
    (sm.pc = "finished" /\ sm.prerequisites /\ ~sm.audio /\ sm.stream_started # "none"
       /\ ~sm.popen_raised)
        => sm.launches >= 1

\* What holds instead: without audio files FFmpeg is never launched, and
\* start_stream returns False although the prerequisites passed.
C26_NoAudioNoStream ==
    (sm.prerequisites /\ ~sm.audio)
        => (sm.launches = 0 /\ sm.proc = "none" /\ sm.stream_started # "True")

====
